---- MODULE Spec2Model ----
(***************************************************************************)
(* Model of the drift-check worker (src/unnamed/part_000): startup gating  *)
(* with waitForServices, the initial cycle, the cron schedule, and the     *)
(* per-model pipeline computeDrift -> storeDriftRun -> createAlert over    *)
(* the drift_runs and alerts tables (src/unnamed/part_002).                *)
(* Next to it: the routes of the API (src/api/index.js) over the same       *)
(* tables, and the adaptive thresholds and verdict of the computation       *)
(* service as src/unnamed/part_001 describes them.                          *)
(* Last: the metric functions, the calculate route and the ingestion job   *)
(* of the API service (src/services/api/src/utils/metrics.ts), with values *)
(* in thousandths.                                                         *)
(* Metric values are integers in hundredths (0.5 is 50).                   *)
(***************************************************************************)
EXTENDS Naturals, Integers, Sequences, FiniteSets, TLC

\* ---- bounds -------------------------------------------------------------
MaxCycles == 3
NumModels == 2
MaxRuns == 2
MaxTime == 2
MaxLogs == 1

\* ---- program constants --------------------------------------------------
maxRetries == 30
windowMinutes == 60
criticalThreshold == 50

Cycles == 1..MaxCycles

\* rows of the models table, as SELECT id, name FROM models returns them
Registry == [k \in 1..NumModels |-> k]

\* the query of runDriftCheck: the rows of the models table
SelectModelsDup == Registry \o Registry
SelectModels == Registry

\* SQL NULL, and a field a JSON answer does not carry; a value x is <<x>>
NULL == <<>>

\* answers of POST /compute_drift that carry a verdict; embedding_drift is
\* absent when the windows hold no embeddings
Verdicts ==
  { [kl_divergence |-> 30, cosine_similarity |-> 95, embedding_drift |-> NULL,
     drift_detected |-> FALSE, window_start |-> 0, window_end |-> 0,
     thresholds |-> [kl |-> 40, cosine |-> 90, embedding |-> 15]],
    [kl_divergence |-> 50, cosine_similarity |-> 80, embedding_drift |-> <<10>>,
     drift_detected |-> TRUE, window_start |-> 0, window_end |-> 0,
     thresholds |-> [kl |-> 60, cosine |-> 90, embedding |-> 15]],
    [kl_divergence |-> 60, cosine_similarity |-> 95, embedding_drift |-> <<20>>,
     drift_detected |-> TRUE, window_start |-> 0, window_end |-> 0,
     thresholds |-> [kl |-> 10, cosine |-> 90, embedding |-> 15]] }

\* the value of the local drift while no answer is held
NoDrift ==
  [kl_divergence |-> 0, cosine_similarity |-> 0, embedding_drift |-> NULL,
   drift_detected |-> FALSE, window_start |-> 0, window_end |-> 0,
   thresholds |-> [kl |-> 0, cosine |-> 0, embedding |-> 0]]

\* the recent window of a computation requested at time t: [t - window_minutes, t]
Windowed(v, t) == [v EXCEPT !.window_start = t - windowMinutes, !.window_end = t]

\* what a request to the computation service can come to: a verdict, a NoData
\* result (no verdict in the answer), or a failed request
Answers == {"verdict", "nodata", "error"}

VARIABLES
  mainPc,      \* position of main(): "health", "db", "sleep", "first", "scheduled", "fatal"
  i,           \* loop counter of waitForServices
  attempts,    \* attempts made by the running waitForServices call
  healthOk,    \* the current attempt saw GET /health succeed
  dbOk,        \* the current attempt saw SELECT 1 succeed
  fatalMsg,    \* message of the error main() died with
  nCycles,     \* calls of runDriftCheck so far
  cycles,      \* per call of runDriftCheck: its position and locals
  drift_runs,  \* table drift_runs
  alerts,      \* table alerts
  now,               \* the clock that NOW() and the computation read
  inference_logs,    \* table inference_logs
  threshold_history, \* table threshold_history
  response,          \* the answer of the API to its latest request
  calc,              \* one threshold and verdict computation: inputs and results
  drift_metrics,     \* table drift_metrics of the API service
  ingest             \* the scheduled ingestion callback of the API service

vars ==
  <<mainPc, i, attempts, healthOk, dbOk, fatalMsg, nCycles, cycles, drift_runs, alerts,
    now, inference_logs, threshold_history, response, calc, drift_metrics, ingest>>

\* what the worker never writes
extVars == <<now, inference_logs, threshold_history, response, calc, drift_metrics, ingest>>

startupVars == <<i, attempts, healthOk, dbOk, fatalMsg>>
dbVars == <<drift_runs, alerts>>

\* no request has been answered yet
NoResponse == [route |-> "none", model_id |-> 0, status |-> "none"]

\* no computation is under way
NoCalc == [pc |-> "none"]

\* the ingestion callback is not running; runs counts the times cron fired
\* it, log is what it logged last and code the error its last request failed with
IdleIngest == [pc |-> "idle", runs |-> 0, log |-> "none", code |-> "", escaped |-> FALSE]

\* locals of a call of runDriftCheck; outcome is what the call logged at its end
IdleCycle ==
  [pc |-> "idle", models |-> <<>>, idx |-> 0, drift |-> NoDrift, driftRunId |-> 0,
   outcome |-> "none"]

Init ==
  /\ mainPc = "health"
  /\ i = maxRetries
  /\ attempts = 1
  /\ healthOk = FALSE
  /\ dbOk = FALSE
  /\ fatalMsg = ""
  /\ nCycles = 0
  /\ cycles = [c \in Cycles |-> IdleCycle]
  /\ drift_runs = <<>>
  /\ alerts = <<>>
  /\ now = 0
  /\ inference_logs = <<>>
  /\ drift_metrics = <<>>
  /\ ingest = IdleIngest
  /\ threshold_history = <<>>
  /\ response = NoResponse
  /\ calc = NoCalc

\* ---- waitForServices ----------------------------------------------------

\* where an attempt goes once GET /health has answered
AfterHealthOkSkipDb == "first"
AfterHealthOk == "db"

\* loop condition of waitForServices after the decrement
LoopContinuesOffByOne(k) == k >= 0
LoopContinues(k) == k > 0

\* runDriftCheck is called: the locals of a fresh call
StartedCycle == [IdleCycle EXCEPT !.pc = "registry"]

\* waitForServices returned: main calls the first runDriftCheck
WaitReturnScheduled ==
  /\ mainPc' = "scheduled"
  /\ i' = 0
  /\ attempts' = 0
  /\ nCycles' = 1
  /\ cycles' = [cycles EXCEPT ![1] = StartedCycle]
WaitReturn ==
  /\ mainPc' = "first"
  /\ i' = 0
  /\ attempts' = 0
  /\ nCycles' = 1
  /\ cycles' = [cycles EXCEPT ![1] = StartedCycle]

HealthProbe ==
  /\ mainPc = "health"
  /\ \E ok \in BOOLEAN :
       /\ healthOk' = ok
       /\ dbOk' = FALSE
       /\ IF ok
            THEN IF AfterHealthOk = "db"
                   THEN /\ mainPc' = "db"
                        /\ UNCHANGED <<i, attempts, nCycles, cycles>>
                   ELSE WaitReturn
            ELSE /\ mainPc' = "sleep"
                 /\ UNCHANGED <<i, attempts, nCycles, cycles>>
  /\ UNCHANGED <<fatalMsg, drift_runs, alerts>>
  /\ UNCHANGED extVars

DbProbe ==
  /\ mainPc = "db"
  /\ \E ok \in BOOLEAN :
       /\ dbOk' = ok
       /\ IF ok
            THEN WaitReturn
            ELSE /\ mainPc' = "sleep"
                 /\ UNCHANGED <<i, attempts, nCycles, cycles>>
  /\ UNCHANGED <<healthOk, fatalMsg, drift_runs, alerts>>
  /\ UNCHANGED extVars

\* the delay of the catch block elapsed: i--, then the loop test
RetryOrGiveUp ==
  /\ mainPc = "sleep"
  /\ i' = i - 1
  /\ IF LoopContinues(i - 1)
       THEN /\ mainPc' = "health"
            /\ attempts' = attempts + 1
            /\ fatalMsg' = fatalMsg
       ELSE /\ mainPc' = "fatal"
            /\ attempts' = attempts
            /\ fatalMsg' = "Services unavailable"
  /\ UNCHANGED <<healthOk, dbOk, nCycles, cycles, drift_runs, alerts>>
  /\ UNCHANGED extVars

\* ---- the tables ----------------------------------------------------------

\* id of a SERIAL PRIMARY KEY column for the next inserted row
NextIdAhead(table) == Len(table) + 2
NextId(table) == Len(table) + 1

\* INSERT INTO drift_runs ... : the row storeDriftRun inserts; the column
\* embedding_drift is not in the column list and takes its default
DriftRunRow(table, modelId, drift, c) ==
  [id |-> NextId(table), model_id |-> modelId,
   window_start |-> drift.window_start,
   window_end |-> drift.window_end,
   created_at |-> now,
   kl_divergence |-> drift.kl_divergence,
   cosine_similarity |-> drift.cosine_similarity,
   embedding_drift |-> NULL,
   drift_detected |-> drift.drift_detected,
   cycle |-> c]   \* the call of runDriftCheck that wrote the row (bookkeeping)

\* RETURNING id: the id storeDriftRun returns, given the table after the insert
InsertedIdStale(table) == IF Len(table) > 1 THEN table[Len(table) - 1].id ELSE table[Len(table)].id
InsertedId(table) == table[Len(table)].id

\* severity computed by createAlert
SeverityGe(kl) == IF kl >= criticalThreshold THEN "critical" ELSE "warning"
Severity(kl) == IF kl > criticalThreshold THEN "critical" ELSE "warning"

\* INSERT INTO alerts ... : the row createAlert inserts
AlertRowAcked(table, modelId, driftRunId, drift) ==
  [id |-> NextId(table), model_id |-> modelId, drift_run_id |-> driftRunId,
   severity |-> Severity(drift.kl_divergence), acknowledged |-> TRUE]
AlertRow(table, modelId, driftRunId, drift) ==
  [id |-> NextId(table), model_id |-> modelId, drift_run_id |-> driftRunId,
   severity |-> Severity(drift.kl_divergence), acknowledged |-> FALSE]

\* the condition of checkModel under which createAlert is called
ShouldAlertAlways(drift) == TRUE
ShouldAlert(drift) == drift.drift_detected

\* rows of drift_runs written by the calls of runDriftCheck of this process
\* (rows found at startup carry cycle 0)
RowsWritten == Cardinality({r \in 1..Len(drift_runs) : drift_runs[r].cycle # 0})

\* an INSERT INTO drift_runs succeeds or fails; it fails once MaxRuns rows were written
InsertResults == IF RowsWritten < MaxRuns THEN BOOLEAN ELSE {FALSE}

\* ---- runDriftCheck ------------------------------------------------------

\* how a call of runDriftCheck ends when its try block throws err:
\* the catch block logs err.message and the call returns
CatchRethrow(err) == "rejected"
CatchOutcome(err) == err

\* a call of runDriftCheck is over: its locals are gone
EndedComplete(how) == [IdleCycle EXCEPT !.pc = "done", !.outcome = "complete"]
Ended(how) == [IdleCycle EXCEPT !.pc = "done", !.outcome = how]

\* the catch block of runDriftCheck
Caught(err) == Ended(CatchOutcome(err))

\* checkModel returned for the current model: the for loop goes on or ends
AdvanceAgain(cyc) ==
  [cyc EXCEPT !.pc = "compute", !.drift = NoDrift, !.driftRunId = 0]
Advance(cyc) ==
  IF cyc.idx + 1 > Len(cyc.models)
    THEN Ended("complete")
    ELSE [cyc EXCEPT !.pc = "compute", !.idx = cyc.idx + 1,
                     !.drift = NoDrift, !.driftRunId = 0]

\* a rejected promise of a scheduled callback is an unhandled rejection
ProcessAfter(c, cyc) ==
  IF c > 1 /\ cyc.outcome = "rejected" THEN "fatal" ELSE mainPc

Running == mainPc \in {"first", "scheduled"}

\* cron fires: node-cron calls runDriftCheck whatever earlier calls are doing
Tick ==
  /\ mainPc = "scheduled"
  /\ nCycles < MaxCycles
  /\ nCycles' = nCycles + 1
  /\ cycles' = [cycles EXCEPT ![nCycles + 1] = StartedCycle]
  /\ UNCHANGED <<mainPc, startupVars, dbVars>>
  /\ UNCHANGED extVars

\* const models = await query("SELECT id, name FROM models")
QueryModels(c) ==
  /\ Running
  /\ cycles[c].pc = "registry"
  /\ \E ok \in BOOLEAN :
       LET cyc == cycles[c]
           got == [cyc EXCEPT !.models = SelectModels]
           nxt == IF ~ok THEN Caught("error")
                  ELSE IF Len(got.models) = 0
                         THEN Ended("complete")
                         ELSE [got EXCEPT !.pc = "compute", !.idx = 1]
       IN /\ cycles' = [cycles EXCEPT ![c] = nxt]
          /\ mainPc' = ProcessAfter(c, nxt)
  /\ UNCHANGED <<startupVars, nCycles, dbVars>>
  /\ UNCHANGED extVars

\* const drift = await computeDrift(model.id), and the log line after it
ComputeDrift(c) ==
  /\ Running
  /\ cycles[c].pc = "compute"
  /\ \E kind \in Answers : \E v \in Verdicts :
       LET cyc == cycles[c]
           m == cyc.models[cyc.idx]
           nxt == CASE kind = "verdict" ->
                         [cyc EXCEPT !.pc = "store", !.drift = Windowed(v, now)]
                    [] kind = "nodata" -> Caught("nodata")
                    [] kind = "error" -> Caught("error")
       IN /\ cycles' = [cycles EXCEPT ![c] = nxt]
          /\ mainPc' = ProcessAfter(c, nxt)
  /\ UNCHANGED <<startupVars, nCycles, dbVars>>
  /\ UNCHANGED extVars

\* const driftRunId = await storeDriftRun(model.id, drift); if (drift.drift_detected)
StoreDriftRun(c) ==
  /\ Running
  /\ cycles[c].pc = "store"
  /\ \E ok \in InsertResults :
       LET cyc == cycles[c]
           m == cyc.models[cyc.idx]
           table == Append(drift_runs, DriftRunRow(drift_runs, m, cyc.drift, c))
           stored == [cyc EXCEPT !.driftRunId = InsertedId(table)]
           nxt == IF ~ok THEN Caught("error")
                  ELSE IF ShouldAlert(cyc.drift)
                         THEN [stored EXCEPT !.pc = "alert"]
                         ELSE Advance(stored)
       IN /\ drift_runs' = IF ok THEN table ELSE drift_runs
          /\ cycles' = [cycles EXCEPT ![c] = nxt]
          /\ mainPc' = ProcessAfter(c, nxt)
  /\ UNCHANGED <<startupVars, nCycles, alerts>>
  /\ UNCHANGED extVars

\* await createAlert(model.id, driftRunId, drift, model.name)
CreateAlert(c) ==
  /\ Running
  /\ cycles[c].pc = "alert"
  /\ \E ok \in BOOLEAN :
       LET cyc == cycles[c]
           m == cyc.models[cyc.idx]
           nxt == IF ok THEN Advance(cyc) ELSE Caught("error")
       IN /\ alerts' = IF ok
                         THEN Append(alerts, AlertRow(alerts, m, cyc.driftRunId, cyc.drift))
                         ELSE alerts
          /\ cycles' = [cycles EXCEPT ![c] = nxt]
          /\ mainPc' = ProcessAfter(c, nxt)
  /\ UNCHANGED <<startupVars, nCycles, drift_runs>>
  /\ UNCHANGED extVars

\* main: the awaited first runDriftCheck settled; cron.schedule(...)
ScheduleCron ==
  /\ mainPc = "first"
  /\ cycles[1].pc = "done"
  /\ IF cycles[1].outcome = "rejected"
       THEN mainPc' = "fatal" /\ fatalMsg' = "runDriftCheck"
       ELSE mainPc' = "scheduled" /\ fatalMsg' = fatalMsg
  /\ UNCHANGED <<i, attempts, healthOk, dbOk, nCycles, cycles, dbVars>>
  /\ UNCHANGED extVars

Startup == HealthProbe \/ DbProbe \/ RetryOrGiveUp

Next ==
  \/ HealthProbe
  \/ DbProbe
  \/ RetryOrGiveUp
  \/ ScheduleCron
  \/ Tick
  \/ \E c \in Cycles : QueryModels(c)
  \/ \E c \in Cycles : ComputeDrift(c)
  \/ \E c \in Cycles : StoreDriftRun(c)
  \/ \E c \in Cycles : CreateAlert(c)

Spec == Init /\ [][Next]_vars

\* ---- the worker under a running clock -----------------------------------

\* the process after startup and k calls of runDriftCheck that each ended at
\* a failed registry query, with the schedule registered
AfterCycles(k) ==
  /\ mainPc = "scheduled"
  /\ i = 0
  /\ attempts = 0
  /\ healthOk = TRUE
  /\ dbOk = TRUE
  /\ fatalMsg = ""
  /\ nCycles = k
  /\ cycles = [c \in Cycles |-> IF c <= k THEN Ended("error") ELSE IdleCycle]
  /\ alerts = <<>>

ClockInit ==
  /\ AfterCycles(MaxCycles - 2)
  /\ drift_runs = <<>>
  /\ now = 0
  /\ inference_logs = <<>>
  /\ drift_metrics = <<>>
  /\ ingest = IdleIngest
  /\ threshold_history = <<>>
  /\ response = NoResponse
  /\ calc = NoCalc

\* time passes
ClockTick ==
  /\ now < MaxTime
  /\ now' = now + 1
  /\ UNCHANGED <<mainPc, startupVars, nCycles, cycles, dbVars, drift_metrics, ingest,
                 inference_logs, threshold_history, response, calc>>

\* the worker actions leave the clock alone: an await takes no fixed time
ClockNext ==
  \/ ClockTick
  \/ Tick
  \/ \E c \in Cycles : QueryModels(c)
  \/ \E c \in Cycles : ComputeDrift(c)
  \/ \E c \in Cycles : StoreDriftRun(c)
  \/ \E c \in Cycles : CreateAlert(c)

ClockSpec == ClockInit /\ [][ClockNext]_vars

\* the probes return and the retry timer fires
FairSpec == Spec /\ WF_vars(Startup)

\* ---- the API (src/api/index.js) next to the worker -----------------------

DEFAULT_MODEL_ID == 1

\* a run found in drift_runs at startup: an earlier stable run of the default model
SeedRun ==
  [id |-> 1, model_id |-> DEFAULT_MODEL_ID, window_start |-> 0 - windowMinutes,
   window_end |-> 0, created_at |-> 0, kl_divergence |-> 30, cosine_similarity |-> 95,
   embedding_drift |-> NULL, drift_detected |-> FALSE, cycle |-> 0]

ApiInit ==
  /\ AfterCycles(MaxCycles - 1)
  /\ drift_runs \in {<<>>, <<SeedRun>>}
  /\ now = 1
  /\ inference_logs = <<>>
  /\ drift_metrics = <<>>
  /\ ingest = IdleIngest
  /\ threshold_history = <<>>
  /\ response = NoResponse
  /\ calc = NoCalc

workerVars == <<mainPc, startupVars, nCycles, cycles>>

\* INSERT INTO inference_logs ... RETURNING *
InferenceRow(table, modelId) ==
  [id |-> NextId(table), model_id |-> modelId, created_at |-> now]

\* POST /inference
PostInference ==
  /\ \E m \in 1..NumModels : \E ok \in (IF Len(inference_logs) < MaxLogs THEN BOOLEAN ELSE {FALSE}) :
       /\ inference_logs' = IF ok THEN Append(inference_logs, InferenceRow(inference_logs, m))
                                  ELSE inference_logs
       /\ response' = [route |-> "inference", model_id |-> 0,
                       status |-> IF ok THEN "success" ELSE "error"]
  /\ UNCHANGED <<workerVars, dbVars, drift_metrics, ingest, now, threshold_history, calc>>

\* SELECT * FROM drift_runs WHERE model_id = $1
ModelRuns(m) ==
  {drift_runs[r] : r \in {q \in 1..Len(drift_runs) : drift_runs[q].model_id = m}}

\* ORDER BY created_at DESC LIMIT 1: a row no other row is newer than
LatestOf(rows) == {x \in rows : \A y \in rows : y.created_at <= x.created_at}

\* the status GET /drift/latest answers for a row, or for none
StatusOf(row) == IF row.drift_detected THEN "drift_detected" ELSE "stable"
DriftLatest(m) ==
  IF ModelRuns(m) = {} THEN {"no_data"}
  ELSE {StatusOf(x) : x \in LatestOf(ModelRuns(m))}

\* GET /drift/latest?model_id=m
GetDriftLatest ==
  /\ \E m \in 1..NumModels : \E ok \in BOOLEAN : \E st \in DriftLatest(m) :
       response' = [route |-> "latest", model_id |-> m,
                    status |-> IF ok THEN st ELSE "error"]
  /\ UNCHANGED <<workerVars, dbVars, drift_metrics, ingest, now, inference_logs, threshold_history, calc>>

\* GET /drift/history, /alerts, /models, /stats: SELECT only, rows or a 500
GetRows ==
  /\ \E ok \in BOOLEAN :
       response' = [route |-> "select", model_id |-> 0,
                    status |-> IF ok THEN "rows" ELSE "error"]
  /\ UNCHANGED <<workerVars, dbVars, drift_metrics, ingest, now, inference_logs, threshold_history, calc>>

ApiNext ==
  \/ Tick
  \/ \E c \in Cycles : QueryModels(c)
  \/ \E c \in Cycles : ComputeDrift(c)
  \/ \E c \in Cycles : StoreDriftRun(c)
  \/ \E c \in Cycles : CreateAlert(c)
  \/ PostInference
  \/ GetDriftLatest
  \/ GetRows

ApiSpec == ApiInit /\ [][ApiNext]_vars

\* ---- the computation service: adaptive thresholds and the verdict -------
\* (python-service/main.py is described in src/unnamed/part_001, sections 2, 3, 8)

MaxSamples == 11
MaxBare == 1

BASE_KL_THRESHOLD == 10
BASE_COSINE_THRESHOLD == 90
BASE_EMBEDDING_THRESHOLD == 15
ADAPTIVE_WINDOW_SIZE == 100
ADAPTIVE_STD_MULTIPLIER == 2
MIN_ADAPTIVE_SAMPLES == 10

MetricNames == {"kl", "cosine", "embedding"}

BaseThreshold(metric) ==
  CASE metric = "kl" -> BASE_KL_THRESHOLD
    [] metric = "cosine" -> BASE_COSINE_THRESHOLD
    [] metric = "embedding" -> BASE_EMBEDDING_THRESHOLD

RECURSIVE Sum(_)
Sum(s) == IF s = <<>> THEN 0 ELSE Head(s) + Sum(Tail(s))
Squares(s) == [k \in 1..Len(s) |-> s[k] * s[k]]
Isqrt(x) == CHOOSE r \in 0..x : r * r <= x /\ x < (r + 1) * (r + 1)

\* np.mean and np.std (population) of a non-empty sample, in whole hundredths
Mean(s) == Sum(s) \div Len(s)
Std(s) == Isqrt(Len(s) * Sum(Squares(s)) - Sum(s) * Sum(s)) \div Len(s)

\* mean + 2 std above the samples (kl, embedding), mean - 2 std below (cosine)
Sigma(metric, s) ==
  IF metric = "cosine" THEN Mean(s) - ADAPTIVE_STD_MULTIPLIER * Std(s)
  ELSE Mean(s) + ADAPTIVE_STD_MULTIPLIER * Std(s)

\* the floor at the base threshold, mirrored to a ceiling for cosine
Unfloored(metric, t) == t
Floored(metric, t) ==
  IF metric = "cosine"
  THEN (IF t < BaseThreshold(metric) THEN t ELSE BaseThreshold(metric))
  ELSE (IF t > BaseThreshold(metric) THEN t ELSE BaseThreshold(metric))

\* too few stable runs to adapt
TooFewOnlyEmpty(s) == Len(s) = 0
TooFew(s) == Len(s) < MIN_ADAPTIVE_SAMPLES

AdaptiveThreshold(metric, s) ==
  IF TooFew(s) THEN BaseThreshold(metric) ELSE Floored(metric, Sigma(metric, s))

\* the ThresholdSnapshot of one computation (threshold_history without id, model
\* and time); mean and std are not computed below the minimum
Snapshot(metric, s) ==
  [metric_name |-> metric, threshold_value |-> AdaptiveThreshold(metric, s),
   sample_count |-> Len(s),
   mean_value |-> IF TooFew(s) THEN NULL ELSE <<Mean(s)>>,
   std_value |-> IF TooFew(s) THEN NULL ELSE <<Std(s)>>]

\* the historical values of a metric in a sequence of stable runs
RECURSIVE Present(_)
Present(s) ==
  IF s = <<>> THEN <<>>
  ELSE (IF Head(s) = NULL THEN <<>> ELSE Head(s)) \o Present(Tail(s))
SamplesOf(metric, runs) ==
  CASE metric = "kl" -> [k \in 1..Len(runs) |-> runs[k].kl_divergence]
    [] metric = "cosine" -> [k \in 1..Len(runs) |-> runs[k].cosine_similarity]
    [] metric = "embedding" -> Present([k \in 1..Len(runs) |-> runs[k].embedding_drift])

\* the metrics of an evaluation: embedding only when embeddings are present
InPlay(m) == IF m.embedding_drift = NULL THEN {"kl", "cosine"} ELSE MetricNames

\* thresholds of an evaluation with measurement m over the stable runs
ThresholdsFor(m, runs) ==
  [kl |-> AdaptiveThreshold("kl", SamplesOf("kl", runs)),
   cosine |-> AdaptiveThreshold("cosine", SamplesOf("cosine", runs)),
   embedding |-> IF "embedding" \in InPlay(m)
                 THEN <<AdaptiveThreshold("embedding", SamplesOf("embedding", runs))>>
                 ELSE NULL]

\* Combined Drift Detection: any of the signals in play beyond its threshold
DriftDetectedKlCosine(m, th) ==
  \/ m.kl_divergence > th.kl
  \/ m.cosine_similarity < th.cosine
DriftDetected(m, th) ==
  \/ m.kl_divergence > th.kl
  \/ m.cosine_similarity < th.cosine
  \/ (m.embedding_drift # NULL /\ th.embedding # NULL /\ m.embedding_drift[1] > th.embedding[1])

\* what the two windows can measure
Measurements ==
  { [kl_divergence |-> k, cosine_similarity |-> c, embedding_drift |-> e] :
      k \in {5, 11, 30}, c \in {95, 88, 80}, e \in {NULL, <<10>>, <<17>>, <<30>>} }

\* stable runs a history is made of: low values, values near the base
\* thresholds, and a run of a window without embeddings
QuietRun == [kl_divergence |-> 2, cosine_similarity |-> 99, embedding_drift |-> <<3>>]
NoisyRun == [kl_divergence |-> 9, cosine_similarity |-> 91, embedding_drift |-> <<14>>]
BareRun == [kl_divergence |-> 9, cosine_similarity |-> 91, embedding_drift |-> NULL]
Repeat(x, n) == [k \in 1..n |-> x]
History(h) == Repeat(QuietRun, h.quiet) \o Repeat(NoisyRun, h.noisy) \o Repeat(BareRun, h.bare)
Histories ==
  { h \in [quiet : 0..MaxSamples, noisy : 0..MaxSamples, bare : 0..MaxBare] :
      h.quiet + h.noisy + h.bare <= MaxSamples }

ThreshInit ==
  /\ AfterCycles(MaxCycles)
  /\ drift_runs = <<>>
  /\ now = 0
  /\ inference_logs = <<>>
  /\ drift_metrics = <<>>
  /\ ingest = IdleIngest
  /\ threshold_history = <<>>
  /\ response = NoResponse
  /\ \E h \in Histories : \E m \in Measurements :
       calc = [pc |-> "fetched", history |-> h, measured |-> m,
               thresholds |-> NULL, snapshots |-> {}, drift_detected |-> FALSE]

\* compute the thresholds of the metrics in play and their snapshots
ComputeThresholds ==
  /\ calc.pc = "fetched"
  /\ calc' = [calc EXCEPT
       !.pc = "thresholds",
       !.thresholds = ThresholdsFor(calc.measured, History(calc.history)),
       !.snapshots = {Snapshot(metric, SamplesOf(metric, History(calc.history))) :
                        metric \in InPlay(calc.measured)}]
  /\ UNCHANGED <<workerVars, dbVars, drift_metrics, ingest, now, inference_logs, threshold_history, response>>

\* the verdict of the evaluation
DecideDrift ==
  /\ calc.pc = "thresholds"
  /\ calc' = [calc EXCEPT
       !.pc = "decided",
       !.drift_detected = DriftDetected(calc.measured, calc.thresholds)]
  /\ UNCHANGED <<workerVars, dbVars, drift_metrics, ingest, now, inference_logs, threshold_history, response>>

ThreshNext == ComputeThresholds \/ DecideDrift
ThreshSpec == ThreshInit /\ [][ThreshNext]_vars

\* ---- the worker next to the computation service -------------------------

\* get_stable_drift_runs(model_id, window_size): the newest window_size runs of
\* the model with drift_detected = false, as positions in drift_runs
ModelRunIds(m) == {r \in 1..Len(drift_runs) : drift_runs[r].model_id = m}
StableRunIds(m) ==
  {r \in 1..Len(drift_runs) : drift_runs[r].model_id = m /\ ~drift_runs[r].drift_detected}
Newest(ids, n) == {r \in ids : Cardinality({q \in ids : q > r}) < n}
RunsAt(ids) == SelectSeq(drift_runs, LAMBDA row : row.id \in ids)

\* INSERT INTO threshold_history: one row per metric in play, in the order
\* kl, cosine, embedding
MetricOrder == <<"kl", "cosine", "embedding">>
WithAdaptiveSnapshots(table, modelId, m, runs) ==
  LET names == SelectSeq(MetricOrder,
                         LAMBDA x : x \in InPlay(m) /\ ~TooFew(SamplesOf(x, runs)))
  IN table \o [k \in 1..Len(names) |->
                 [id |-> Len(table) + k, model_id |-> modelId, created_at |-> now]
                   @@ Snapshot(names[k], SamplesOf(names[k], runs))]
WithSnapshots(table, modelId, m, runs) ==
  LET names == SelectSeq(MetricOrder, LAMBDA x : x \in InPlay(m))
  IN table \o [k \in 1..Len(names) |->
                 [id |-> Len(table) + k, model_id |-> modelId, created_at |-> now]
                   @@ Snapshot(names[k], SamplesOf(names[k], runs))]

\* the answer of POST /compute_drift for measurement m over the fetched runs;
\* fetched records which runs the thresholds were computed from (bookkeeping)
Answer(m, ids) ==
  LET th == ThresholdsFor(m, RunsAt(ids))
  IN [kl_divergence |-> m.kl_divergence, cosine_similarity |-> m.cosine_similarity,
      embedding_drift |-> m.embedding_drift,
      drift_detected |-> DriftDetected(m, th),
      window_start |-> now - windowMinutes, window_end |-> now,
      thresholds |-> th, fetched |-> ids]

\* what the windows measure in these runs
Measured ==
  {m \in Measurements : /\ m.kl_divergence # 11
                        /\ m.cosine_similarity = 95
                        /\ m.embedding_drift \in {NULL, <<17>>}}

\* const drift = await computeDrift(model.id), served by the computation
\* service: NoData before any threshold is computed, a verdict, or a verdict
\* whose response is lost
ServiceAnswers == {"verdict", "nodata", "lost"}
ComputeDriftAdaptive(c) ==
  /\ Running
  /\ cycles[c].pc = "compute"
  /\ \E kind \in ServiceAnswers : \E m \in Measured :
       LET cyc == cycles[c]
           modelId == cyc.models[cyc.idx]
           ids == Newest(StableRunIds(modelId), ADAPTIVE_WINDOW_SIZE)
           nxt == CASE kind = "verdict" -> [cyc EXCEPT !.pc = "store", !.drift = Answer(m, ids)]
                    [] kind = "nodata" -> Caught("nodata")
                    [] kind = "lost" -> Caught("error")
       IN /\ cycles' = [cycles EXCEPT ![c] = nxt]
          /\ mainPc' = ProcessAfter(c, nxt)
          /\ threshold_history' =
               IF kind = "nodata" THEN threshold_history
               ELSE WithSnapshots(threshold_history, modelId, m, RunsAt(ids))
  /\ UNCHANGED <<startupVars, nCycles, dbVars, drift_metrics, ingest, now, inference_logs, response, calc>>

\* drift_runs after earlier cycles: enough stable runs of the default model to
\* adapt, a drifting run of it, and a stable run of the last model
SeedRow(k, modelId, run, drifted) ==
  [id |-> k, model_id |-> modelId, window_start |-> 0 - windowMinutes, window_end |-> 0,
   created_at |-> 0, kl_divergence |-> run.kl_divergence,
   cosine_similarity |-> run.cosine_similarity, embedding_drift |-> NULL,
   drift_detected |-> drifted, cycle |-> 0]
Drifted == [kl_divergence |-> 60, cosine_similarity |-> 80, embedding_drift |-> NULL]
SeedTable ==
  [k \in 1..(MIN_ADAPTIVE_SAMPLES + 2) |->
     IF k <= MIN_ADAPTIVE_SAMPLES
       THEN SeedRow(k, DEFAULT_MODEL_ID, IF k % 2 = 0 THEN QuietRun ELSE NoisyRun, FALSE)
     ELSE IF k = MIN_ADAPTIVE_SAMPLES + 1
       THEN SeedRow(k, DEFAULT_MODEL_ID, Drifted, TRUE)
     ELSE SeedRow(k, NumModels, NoisyRun, FALSE)]

ServiceInit ==
  /\ AfterCycles(MaxCycles - 2)
  /\ drift_runs \in {<<>>, SeedTable}
  /\ now = 1
  /\ inference_logs = <<>>
  /\ drift_metrics = <<>>
  /\ ingest = IdleIngest
  /\ threshold_history = <<>>
  /\ response = NoResponse
  /\ calc = NoCalc

ServiceNext ==
  \/ Tick
  \/ \E c \in Cycles : QueryModels(c)
  \/ \E c \in Cycles : ComputeDriftAdaptive(c)
  \/ \E c \in Cycles : StoreDriftRun(c)
  \/ \E c \in Cycles : CreateAlert(c)

ServiceSpec == ServiceInit /\ [][ServiceNext]_vars

\* ---- the API service: metrics (src/services/api/src/utils/metrics.ts) ----
\* Vectors hold small integers; results are carried in thousandths.

MaxLen == 2

\* entries of the input arrays
Entries == {0 - 1, 0, 1, 2}
Vectors == UNION {[1..n -> Entries] : n \in 0..MaxLen}

\* a call returns a value or throws an Error with a message
Value(v) == [error |-> "", value |-> v]
Thrown(msg) == [error |-> msg, value |-> 0]

\* vectorA.length !== vectorB.length, p.length !== q.length
SameLengthOrShorter(a, b) == Len(a) <= Len(b)
SameLength(a, b) == Len(a) = Len(b)

\* dotProduct += vectorA[i] * vectorB[i] over i < vectorA.length
Dot(a, b) == Sum([k \in 1..Len(a) |-> a[k] * b[k]])

\* if (magnitudeA === 0 || magnitudeB === 0) return 0
ZeroMagnitudeThrown == Thrown("Vectors cannot have zero magnitude")
ZeroMagnitudeResult == Value(0)

\* Math.sqrt(x) === 0 exactly when x is 0; the quotient in thousandths
calculateCosineSimilarity(vectorA, vectorB) ==
  IF ~SameLength(vectorA, vectorB) THEN Thrown("Vectors must have the same length")
  ELSE LET squareA == Dot(vectorA, vectorA)
           squareB == Dot(vectorB, vectorB)
       IN IF squareA = 0 \/ squareB = 0 THEN ZeroMagnitudeResult
          ELSE Value((Dot(vectorA, vectorB) * 1000) \div Isqrt(squareA * squareB))

\* Math.log of a positive integer, in thousandths; the arguments that occur
\* are products of an entry and a sum of entries
LogTable == <<0, 693, 1099, 1386, 1609, 1792, 1946, 2079, 2197, 2303, 2398, 2485>>
Abs(x) == IF x < 0 THEN 0 - x ELSE x
Log(n) == LogTable[Abs(n)]
\* Math.log(1 / epsilon) for epsilon = 1e-10, in thousandths
LogInverseEpsilon == 23026

\* val / sum > epsilon: for integers of this size a quotient is above 1e-10
\* exactly when it is above 0
AboveEpsilon(val, sum) == val * sum > 0

\* Math.max(normalizedQ[i], epsilon) is epsilon
QIsEpsilonAlways(val, sum) == TRUE
QIsEpsilon(val, sum) == ~AboveEpsilon(val, sum)

\* normalizedP[i] * Math.log(normalizedP[i] / qVal), times sumP
Term(pVal, sumP, qVal, sumQ) ==
  IF ~AboveEpsilon(pVal, sumP) THEN 0
  ELSE IF QIsEpsilon(qVal, sumQ)
         THEN pVal * (Log(pVal) - Log(sumP) + LogInverseEpsilon)
         ELSE pVal * (Log(pVal * sumQ) - Log(sumP * qVal))

calculateKLDivergence(p, q) ==
  IF ~SameLength(p, q) THEN Thrown("Distributions must have the same length")
  ELSE LET sumP == Sum(p)
           sumQ == Sum(q)
       IN IF sumP = 0 \/ sumQ = 0 THEN Thrown("Distributions cannot sum to zero")
          ELSE Value(Sum([k \in 1..Len(p) |-> Term(p[k], sumP, q[k], sumQ)]) \div sumP)

NoResult == Thrown("none")

MetricInit ==
  /\ AfterCycles(MaxCycles)
  /\ drift_runs = <<>>
  /\ now = 0
  /\ inference_logs = <<>>
  /\ drift_metrics = <<>>
  /\ ingest = IdleIngest
  /\ threshold_history = <<>>
  /\ response = NoResponse
  /\ \E a, b \in Vectors :
       calc = [pc |-> "vectors", a |-> a, b |-> b, cosine |-> NoResult, kl |-> NoResult]

\* calculateCosineSimilarity(a, b) is called
CallCosine ==
  /\ calc.pc = "vectors"
  /\ calc.cosine = NoResult
  /\ calc' = [calc EXCEPT !.cosine = calculateCosineSimilarity(calc.a, calc.b)]
  /\ UNCHANGED <<workerVars, dbVars, drift_metrics, ingest, now, inference_logs,
                 threshold_history, response>>

\* calculateKLDivergence(a, b) is called
CallKL ==
  /\ calc.pc = "vectors"
  /\ calc.kl = NoResult
  /\ calc' = [calc EXCEPT !.kl = calculateKLDivergence(calc.a, calc.b)]
  /\ UNCHANGED <<workerVars, dbVars, drift_metrics, ingest, now, inference_logs,
                 threshold_history, response>>

MetricNext == CallCosine \/ CallKL
MetricSpec == MetricInit /\ [][MetricNext]_vars

\* ---- the API service: POST /api/drift/calculate and the ingestion job ----

MaxMetrics == 2
MaxIngest == 2

\* a field of the request body: an array of numbers, or anything else
\* (missing, null, a string, an object)
NotArray == [isArray |-> FALSE, items |-> <<>>]
Array(v) == [isArray |-> TRUE, items |-> v]

\* request bodies tried: empty, all-zero and valid arrays, and fields that are
\* no arrays
SampleArrays == {<<>>, <<0, 0>>, <<1, 2>>, <<2, 1>>}
Fields == {NotArray} \cup {Array(v) : v \in SampleArrays}
\* modelId is left out by the clients here: the row gets 'default'
Bodies == [baseline : Fields, current : Fields, modelId : {"default"}]

\* the answer of the handler before it touches the table: 400 for invalid
\* input, 500 when a metric throws, else the metrics are computed
MetricsOf(body) ==
  [cosineSimilarity |-> calculateCosineSimilarity(body.baseline.items, body.current.items),
   klDivergence |-> calculateKLDivergence(body.baseline.items, body.current.items)]
Checked(body) ==
  IF ~body.baseline.isArray \/ ~body.current.isArray THEN "400"
  ELSE IF Len(body.baseline.items) # Len(body.current.items) THEN "400"
  ELSE IF MetricsOf(body).cosineSimilarity.error # "" THEN "500"
  ELSE IF MetricsOf(body).klDivergence.error # "" THEN "500"
  ELSE "computed"

\* INSERT INTO drift_metrics ... RETURNING *; 1 is 1000 thousandths
MetricRow(table, body) ==
  [id |-> NextId(table),
   model_id |-> body.modelId,
   cosine_distance |-> 1000 - MetricsOf(body).cosineSimilarity.value,
   kl_divergence |-> MetricsOf(body).klDivergence.value,
   baseline_distribution |-> body.baseline.items,
   current_distribution |-> body.current.items]

\* the INSERT is reached
InsertsUnlessInvalid(body) == Checked(body) # "400"
Inserts(body) == Checked(body) = "computed"

\* the table and the status after the handler ran; the INSERT succeeds or fails
Calculated(table, body, ok) ==
  [table |-> IF Inserts(body) /\ ok THEN Append(table, MetricRow(table, body)) ELSE table,
   status |-> IF Checked(body) = "computed"
                THEN (IF ok THEN "success" ELSE "500")
                ELSE Checked(body)]
InsertOutcomes == IF Len(drift_metrics) < MaxMetrics THEN BOOLEAN ELSE {FALSE}

\* POST /api/drift/calculate from a client
PostCalculate ==
  /\ \E body \in Bodies : \E ok \in InsertOutcomes :
       /\ drift_metrics' = Calculated(drift_metrics, body, ok).table
       /\ response' = [route |-> "calculate", model_id |-> 0,
                       status |-> Calculated(drift_metrics, body, ok).status,
                       body |-> body]
  /\ UNCHANGED <<workerVars, dbVars, ingest, now, inference_logs, threshold_history, calc>>

\* the distributions ingestData posts: generateSampleDistribution(100) twice,
\* equal lengths, positive sums, modelId 'model-' + Date.now()
IngestBody ==
  [baseline |-> Array(<<1, 2>>), current |-> Array(<<2, 1>>), modelId |-> "model-now"]

\* how axios.post can fail: nobody listens, a status outside 2xx, no answer
ErrorCodes == {"ECONNREFUSED", "ERR_BAD_RESPONSE", "ETIMEDOUT"}

\* the catch of ingestData: connection refused is a skipped cycle, any other
\* error is thrown on
IngestCaught(code) == IF code = "ECONNREFUSED" THEN "skipped" ELSE "thrown"

\* the catch of the scheduled callback: nothing leaves it
CallbackUncaught(outcome) == outcome = "thrown"
CallbackEscaped(outcome) == FALSE

\* what the callback logs last
CallbackLog(outcome) == IF outcome = "thrown" THEN "error" ELSE outcome

\* cron fires the callback
IngestTick ==
  /\ ingest.pc = "idle"
  /\ ~ingest.escaped
  /\ ingest.runs < MaxIngest
  /\ ingest' = [ingest EXCEPT !.pc = "posting", !.runs = ingest.runs + 1]
  /\ UNCHANGED <<workerVars, dbVars, drift_metrics, now, inference_logs,
                 threshold_history, response, calc>>

\* await ingestData(pool): the internal POST is answered or fails, and the
\* callback ends
IngestPost ==
  /\ ingest.pc = "posting"
  /\ \E reached \in BOOLEAN : \E ok \in InsertOutcomes : \E code \in ErrorCodes :
       LET done == Calculated(drift_metrics, IngestBody, ok)
           err == IF ~reached THEN code
                  ELSE IF done.status = "success" THEN "" ELSE "ERR_BAD_RESPONSE"
           outcome == IF err = "" THEN "completed" ELSE IngestCaught(err)
       IN /\ drift_metrics' = IF reached THEN done.table ELSE drift_metrics
          /\ ingest' = [ingest EXCEPT !.pc = "idle", !.code = err,
                                      !.log = CallbackLog(outcome),
                                      !.escaped = CallbackEscaped(outcome)]
  /\ UNCHANGED <<workerVars, dbVars, now, inference_logs, threshold_history, response, calc>>

CalcInit ==
  /\ AfterCycles(MaxCycles)
  /\ drift_runs = <<>>
  /\ now = 0
  /\ inference_logs = <<>>
  /\ drift_metrics = <<>>
  /\ ingest = IdleIngest
  /\ threshold_history = <<>>
  /\ response = NoResponse
  /\ calc = NoCalc

CalcNext == PostCalculate \/ IngestTick \/ IngestPost
CalcSpec == CalcInit /\ [][CalcNext]_vars

\* ---- properties ---------------------------------------------------------

InFlight(c) == cycles[c].pc \in {"registry", "compute", "store", "alert"}
Evaluating(c) == cycles[c].pc \in {"compute", "store", "alert"}
Returned == {"complete", "error", "nodata"}
ModelIds == 1..NumModels
RunIds == 1..Len(drift_runs)
AlertIds == 1..Len(alerts)

\* C1: a failure while evaluating one model does not stop the batch: a call of
\* runDriftCheck that fetched the registry ends only after it has reached the
\* last registered model.
C1_BatchContinues ==
  [][\A c \in Cycles :
       (Evaluating(c) /\ cycles'[c].pc = "done")
         => cycles[c].idx = Len(cycles[c].models)]_vars

\* C2: at most one drift-check cycle is in progress at any time.
C2_OneCycleAtATime == Cardinality({c \in Cycles : InFlight(c)}) <= 1

\* C3: whatever fails inside runDriftCheck, the call returns normally, the
\* process stays alive once a cycle has begun, main registers the schedule
\* after the first cycle, and every new cycle starts by fetching the registry.
C3_Returns ==
  /\ \A c \in Cycles : cycles[c].pc = "done" => cycles[c].outcome \in Returned
  /\ mainPc = "fatal" => nCycles = 0
  /\ \A c \in Cycles : Evaluating(c) => cycles[c].models = SelectModels
C3_Step ==
  /\ (mainPc = "first" /\ mainPc' # "first") => mainPc' = "scheduled"
  /\ nCycles' # nCycles =>
       /\ nCycles' = nCycles + 1
       /\ cycles'[nCycles'] = StartedCycle
       /\ \A c \in Cycles \ {nCycles'} : cycles'[c] = cycles[c]
  /\ mainPc = "scheduled" => mainPc' = "scheduled"
C3_CycleNeverKillsSchedule == []C3_Returns /\ [][C3_Step]_vars
C3_Witness ==
  \E c, d \in Cycles :
    /\ c < d
    /\ cycles[c].pc = "done" /\ cycles[c].outcome = "error"
    /\ cycles[d].pc = "compute"
    /\ mainPc = "scheduled"

\* C4: no cycle begins and nothing is written before one attempt of
\* waitForServices saw both the health check and the persistence check succeed.
C4_StartupGating ==
  (nCycles > 0 \/ drift_runs # <<>> \/ alerts # <<>> \/ mainPc \in {"first", "scheduled"})
    => (healthOk /\ dbOk)
C4_Witness == cycles[1].pc = "registry" /\ healthOk /\ dbOk

\* C5: waitForServices gives up after exactly maxRetries attempts with
\* 'Services unavailable', main then dies having run no cycle and registered no
\* schedule; and startup always ends (ready or fatal) when the probes return.
StartupOver == mainPc \in {"first", "scheduled", "fatal"}
C5_GiveUp ==
  /\ attempts <= maxRetries
  /\ mainPc = "fatal" =>
       /\ attempts = maxRetries
       /\ fatalMsg = "Services unavailable"
       /\ nCycles = 0
       /\ \A c \in Cycles : cycles[c].pc = "idle"
       /\ drift_runs = <<>> /\ alerts = <<>>
C5_StartupTerminates == []C5_GiveUp /\ <>StartupOver
C5_Witness == mainPc = "fatal" /\ attempts = maxRetries /\ ~healthOk

\* C6: every Alert references a DriftRun of the same model whose
\* drift_detected is true.
C6_AlertsOnlyOnDrift ==
  \A a \in AlertIds :
    /\ alerts[a].drift_run_id \in RunIds
    /\ drift_runs[alerts[a].drift_run_id].model_id = alerts[a].model_id
    /\ drift_runs[alerts[a].drift_run_id].drift_detected
C6_Witness ==
  /\ \E a \in AlertIds : TRUE
  /\ \E r \in RunIds :
       /\ ~drift_runs[r].drift_detected
       /\ \A c \in Cycles : drift_runs[r].cycle = c => cycles[c].pc = "done"

\* C7: no DriftRun is referenced by more than one Alert.
C7_OneAlertPerRun ==
  \A a, b \in AlertIds : a # b => alerts[a].drift_run_id # alerts[b].drift_run_id
C7_Witness ==
  /\ Len(alerts) = 2
  /\ drift_runs[alerts[1].drift_run_id].cycle # drift_runs[alerts[2].drift_run_id].cycle
  /\ \E c, d \in Cycles : c # d /\ InFlight(c) /\ InFlight(d)
  /\ \E c \in Cycles : cycles[c].outcome = "error"

\* C8: an Alert is 'critical' exactly when the kl_divergence of its run is
\* strictly greater than criticalThreshold, and 'warning' otherwise.
C8_Severity ==
  \A a \in AlertIds :
    /\ alerts[a].severity \in {"critical", "warning"}
    /\ alerts[a].drift_run_id \in RunIds
    /\ (alerts[a].severity = "critical")
         <=> (drift_runs[alerts[a].drift_run_id].kl_divergence > criticalThreshold)
C8_Witness ==
  \E a, b \in AlertIds :
    /\ drift_runs[alerts[a].drift_run_id].kl_divergence = criticalThreshold
    /\ alerts[a].severity = "warning"
    /\ drift_runs[alerts[b].drift_run_id].kl_divergence > criticalThreshold
    /\ drift_runs[alerts[b].drift_run_id].cosine_similarity
         > drift_runs[alerts[a].drift_run_id].cosine_similarity
    /\ alerts[b].severity = "critical"

\* C9: a NoData answer skips the model: the cycle does not end as a failure
\* because of it.
C9_NoDataIsSkipped == \A c \in Cycles : cycles[c].outcome # "nodata"

\* C10: within one cycle a registered model gets at most one DriftRun, and
\* exactly one when its evaluation completed without error.
RunsOf(c, m) ==
  Cardinality({r \in RunIds : drift_runs[r].cycle = c /\ drift_runs[r].model_id = m})
C10_OneRunPerEvaluation ==
  \A c \in Cycles :
    /\ \A m \in ModelIds : RunsOf(c, m) <= 1
    /\ cycles[c].outcome = "complete" => \A m \in ModelIds : RunsOf(c, m) = 1
    /\ Evaluating(c) =>
         /\ \A k \in 1..(cycles[c].idx - 1) : RunsOf(c, cycles[c].models[k]) = 1
         /\ RunsOf(c, cycles[c].models[cycles[c].idx])
              = IF cycles[c].pc = "alert" THEN 1 ELSE 0
C10_Witness ==
  \E c \in Cycles :
    /\ cycles[c].outcome = "complete"
    /\ \A m \in ModelIds : RunsOf(c, m) = 1

\* C11: the DriftRun persisted for an evaluation carries the verdict and all
\* metric and threshold values the computation returned (checked while the
\* call still holds the answer it stored).
C11_RunCarriesAnswer ==
  \A c \in Cycles :
    cycles[c].pc = "alert" =>
      LET row == drift_runs[cycles[c].driftRunId]
          drift == cycles[c].drift
      IN /\ row.kl_divergence = drift.kl_divergence
         /\ row.cosine_similarity = drift.cosine_similarity
         /\ row.drift_detected = drift.drift_detected
         /\ row.embedding_drift = drift.embedding_drift
         /\ "thresholds" \in DOMAIN row
         /\ row.thresholds = drift.thresholds

\* C19: in one cycle the computation is requested at most once per registered
\* model: the loop only moves forward over a registry without duplicates, and
\* a call that ended (also by a failure) never evaluates again.
C19_Registry ==
  \A c \in Cycles : \A j, k \in 1..Len(cycles[c].models) :
    j # k => cycles[c].models[j] # cycles[c].models[k]
C19_Step ==
  \A c \in Cycles :
    /\ (Evaluating(c) /\ cycles'[c] # cycles[c] /\ cycles'[c].pc = "compute")
         => cycles'[c].idx = cycles[c].idx + 1
    /\ (Evaluating(c) /\ Evaluating(c)') => cycles'[c].idx >= cycles[c].idx
    /\ cycles[c].pc = "done" => cycles'[c] = cycles[c]
C19_NoRetryInCycle == []C19_Registry /\ [][C19_Step]_vars
C19_Witness ==
  \E c, d \in Cycles :
    /\ c < d
    /\ cycles[c].pc = "done" /\ cycles[c].outcome = "error"
    /\ \A r \in RunIds : drift_runs[r].cycle # c
    /\ cycles[d].pc = "store" /\ cycles[d].idx = 1

\* C18: for two DriftRuns of the same model, the run stored later never has an
\* earlier window_end than the run stored before it.
C18_WindowOrder ==
  \A r1, r2 \in RunIds :
    (/\ drift_runs[r1].model_id = drift_runs[r2].model_id
     /\ r1 < r2
     /\ drift_runs[r1].created_at < drift_runs[r2].created_at)
      => drift_runs[r1].window_end <= drift_runs[r2].window_end

\* C17: the stored history is append-only: existing DriftRuns and inference
\* records never change or disappear, an existing Alert can differ at most in
\* acknowledged, and every new Alert starts unacknowledged.
IsPrefix(old, new) ==
  /\ Len(old) <= Len(new)
  /\ \A k \in 1..Len(old) : new[k] = old[k]
C17_Step ==
  /\ IsPrefix(drift_runs, drift_runs')
  /\ IsPrefix(inference_logs, inference_logs')
  /\ Len(alerts) <= Len(alerts')
  /\ \A k \in 1..Len(alerts) :
       [alerts'[k] EXCEPT !.acknowledged = alerts[k].acknowledged] = alerts[k]
  /\ \A k \in (Len(alerts) + 1)..Len(alerts') : alerts'[k].acknowledged = FALSE
C17_AppendOnly == [][C17_Step]_vars
C17_Witness ==
  /\ Len(drift_runs) > 1
  /\ Len(alerts) > 0
  /\ Len(inference_logs) > 0
  /\ response.route = "select"

\* C20 (as claimed): a model for which the repeated recent cycles produced no
\* DriftRun is reported by GET /drift/latest as no_data.
NoRecentRun(m) ==
  /\ nCycles >= 2
  /\ \A c \in 1..nCycles : cycles[c].pc = "done"
  /\ \A r \in RunIds : drift_runs[r].model_id = m => drift_runs[r].cycle = 0
LatestAnswered(m) ==
  /\ response' # response
  /\ response'.route = "latest"
  /\ response'.model_id = m
  /\ response'.status # "error"
C20_NoRecentRunIsNoData ==
  [][\A m \in ModelIds :
       (LatestAnswered(m) /\ NoRecentRun(m)) => response'.status = "no_data"]_vars

\* What GET /drift/latest does answer: no_data exactly when the model has no
\* DriftRun at all, however old; otherwise drift_detected or stable after the
\* drift_detected of a DriftRun of the model that none is newer than.
LatestStep ==
  \A m \in ModelIds :
    LatestAnswered(m) =>
      LET mine == {r \in RunIds : drift_runs[r].model_id = m}
          newest == {r \in mine :
                       \A q \in mine : drift_runs[q].created_at <= drift_runs[r].created_at}
      IN /\ response'.status \in {"no_data", "stable", "drift_detected"}
         /\ response'.status = "no_data" <=> mine = {}
         /\ response'.status = "drift_detected" =>
              \E r \in newest : drift_runs[r].drift_detected
         /\ response'.status = "stable" =>
              \E r \in newest : ~drift_runs[r].drift_detected
LatestStatus == [][LatestStep]_vars
LatestWitness ==
  /\ response.route = "latest"
  /\ response.status = "drift_detected"
  /\ \E r1, r2 \in RunIds :
       /\ drift_runs[r1].model_id = response.model_id
       /\ drift_runs[r2].model_id = response.model_id
       /\ drift_runs[r1].created_at < drift_runs[r2].created_at
       /\ ~drift_runs[r1].drift_detected
       /\ drift_runs[r2].drift_detected
  /\ NoRecentRun(response.model_id) = FALSE

\* the computation has produced its thresholds
Thresholded == calc.pc \in {"thresholds", "decided"}
\* stable runs of the history that carry a value of the metric
SampleCount(metric) ==
  IF metric = "embedding" THEN calc.history.quiet + calc.history.noisy
  ELSE calc.history.quiet + calc.history.noisy + calc.history.bare
ThresholdOf(metric) ==
  CASE metric = "kl" -> calc.thresholds.kl
    [] metric = "cosine" -> calc.thresholds.cosine
    [] metric = "embedding" -> calc.thresholds.embedding[1]

\* C12: drift_detected is true if and only if kl_divergence > kl_threshold, or
\* cosine_similarity < cosine_threshold, or embedding_drift is present and
\* above embedding_threshold; without embeddings kl and cosine alone decide.
C12_VerdictIsOr ==
  calc.pc = "decided" =>
    /\ calc.drift_detected <=>
         \/ calc.measured.kl_divergence > calc.thresholds.kl
         \/ calc.measured.cosine_similarity < calc.thresholds.cosine
         \/ /\ calc.measured.embedding_drift # NULL
            /\ calc.measured.embedding_drift[1] > calc.thresholds.embedding[1]
    /\ calc.measured.embedding_drift = NULL =>
         (calc.drift_detected <=>
            \/ calc.measured.kl_divergence > calc.thresholds.kl
            \/ calc.measured.cosine_similarity < calc.thresholds.cosine)
C12_Witness ==
  /\ calc.pc = "decided"
  /\ calc.measured.kl_divergence <= calc.thresholds.kl
  /\ calc.measured.cosine_similarity >= calc.thresholds.cosine
  /\ calc.measured.embedding_drift # NULL
  /\ calc.measured.embedding_drift[1] > calc.thresholds.embedding[1]
  /\ calc.drift_detected

\* C13: with fewer than MIN_ADAPTIVE_SAMPLES stable runs carrying a metric, the
\* threshold used for it is exactly its static base threshold, whatever the
\* mean and spread of the samples that exist.
C13_BaseBelowMinimum ==
  Thresholded =>
    \A metric \in InPlay(calc.measured) :
      SampleCount(metric) < 10 =>
        ThresholdOf(metric) = (CASE metric = "kl" -> 10
                                 [] metric = "cosine" -> 90
                                 [] metric = "embedding" -> 15)
C13_Witness ==
  /\ Thresholded
  /\ "embedding" \in InPlay(calc.measured)
  /\ calc.history.quiet >= 4
  /\ calc.history.noisy >= 4
  /\ SampleCount("embedding") = 9
  /\ SampleCount("kl") = 10
  /\ ThresholdOf("embedding") = 15
  /\ ThresholdOf("kl") > 10

\* C14: the threshold used for kl and for embedding drift is never below its
\* static base threshold and the one used for cosine similarity never above
\* 0.9, for all historical means and deviations, a deviation of 0 included.
C14_FloorAndCeiling ==
  Thresholded =>
    /\ calc.thresholds.kl >= 10
    /\ calc.thresholds.cosine <= 90
    /\ calc.thresholds.embedding # NULL => calc.thresholds.embedding[1] >= 15
C14_Witness ==
  /\ Thresholded
  /\ calc.history.quiet >= 10
  /\ calc.history.noisy = 0
  /\ calc.history.bare = 0
  /\ calc.thresholds = [kl |-> 10, cosine |-> 90, embedding |-> <<15>>]

\* calls of runDriftCheck that hold an answer of the computation service
Answered == {c \in 1..nCycles : cycles[c].pc \in {"store", "alert"}}
SnapshotIds == 1..Len(threshold_history)

\* C15: the thresholds of an evaluation are derived only from DriftRuns of the
\* same model that have drift_detected = false and were stored strictly before
\* the run being computed; a drifting run and the run in progress are never
\* read, also when evaluations of the same model overlap.
C15_Sources ==
  \A c \in Answered :
    LET cyc == cycles[c]
        d == cyc.drift
    IN /\ \A r \in d.fetched :
            /\ r \in RunIds
            /\ drift_runs[r].model_id = cyc.models[cyc.idx]
            /\ ~drift_runs[r].drift_detected
            /\ cyc.pc = "alert" => r < cyc.driftRunId
       /\ d.thresholds = ThresholdsFor(d, RunsAt(d.fetched))
C15_Step ==
  \A c \in Answered :
    (cycles[c].pc = "store" /\ cycles'[c] # cycles[c] /\ Len(drift_runs') > Len(drift_runs)) =>
      LET new == drift_runs'[Len(drift_runs')]
      IN /\ new.cycle = c
         /\ \A r \in cycles[c].drift.fetched : r < new.id /\ drift_runs[r].created_at <= new.created_at
C15_StableOlderRunsOnly == []C15_Sources /\ [][C15_Step]_vars
C15_Witness ==
  \E c \in Answered : \E r, q \in RunIds :
    LET cyc == cycles[c]
    IN /\ Cardinality(cyc.drift.fetched) >= 10
       /\ cyc.drift.thresholds.kl > 10
       /\ drift_runs[r].model_id = cyc.models[cyc.idx]
       /\ drift_runs[r].cycle \notin {0, c}
       /\ ~drift_runs[r].drift_detected
       /\ r \notin cyc.drift.fetched
       /\ drift_runs[q].model_id = cyc.models[cyc.idx]
       /\ drift_runs[q].drift_detected
       /\ drift_runs[q].cycle = 0

\* C16: every threshold computation appends one ThresholdSnapshot per metric
\* in play, with the static base threshold as with the adaptive value; the
\* snapshots are never updated or deleted, so the thresholds of an evaluation
\* and of the DriftRun stored from it are found in threshold_history.
C16_Recorded ==
  /\ \A c \in Answered :
       LET cyc == cycles[c]
       IN \A metric \in InPlay(cyc.drift) :
            \E k \in SnapshotIds :
              /\ threshold_history[k].model_id = cyc.models[cyc.idx]
              /\ threshold_history[k].metric_name = metric
              /\ threshold_history[k].created_at = cyc.drift.window_end
              /\ threshold_history[k].threshold_value =
                   (CASE metric = "kl" -> cyc.drift.thresholds.kl
                      [] metric = "cosine" -> cyc.drift.thresholds.cosine
                      [] metric = "embedding" -> cyc.drift.thresholds.embedding[1])
  /\ \A r \in RunIds :
       drift_runs[r].cycle # 0 =>
         \A metric \in {"kl", "cosine"} :
           \E k \in SnapshotIds :
             /\ threshold_history[k].model_id = drift_runs[r].model_id
             /\ threshold_history[k].metric_name = metric
             /\ threshold_history[k].created_at <= drift_runs[r].created_at
C16_Step ==
  /\ IsPrefix(threshold_history, threshold_history')
  /\ \A c \in 1..nCycles :
       (cycles[c].pc = "compute" /\ cycles'[c].pc = "store") =>
         LET modelId == cycles[c].models[cycles[c].idx]
             new == {k \in 1..Len(threshold_history') : k > Len(threshold_history)}
         IN /\ \A k \in new : threshold_history'[k].model_id = modelId
            /\ \A metric \in MetricNames :
                 Cardinality({k \in new : threshold_history'[k].metric_name = metric})
                   = IF metric \in InPlay(cycles'[c].drift) THEN 1 ELSE 0
            /\ \A k \in new :
                 threshold_history'[k].sample_count < 10 =>
                   threshold_history'[k].threshold_value =
                     (CASE threshold_history'[k].metric_name = "kl" -> 10
                        [] threshold_history'[k].metric_name = "cosine" -> 90
                        [] threshold_history'[k].metric_name = "embedding" -> 15)
C16_SnapshotPerMetric == []C16_Recorded /\ [][C16_Step]_vars
C16_Witness ==
  /\ \E k \in SnapshotIds :
       /\ threshold_history[k].sample_count >= 10
       /\ threshold_history[k].threshold_value # BaseThreshold(threshold_history[k].metric_name)
  /\ \E k \in SnapshotIds :
       /\ threshold_history[k].sample_count < 10
       /\ threshold_history[k].metric_name = "embedding"
  /\ \E r \in RunIds : drift_runs[r].cycle # 0

\* the Alerts written for DriftRun r
AlertsFor(r) == {a \in AlertIds : alerts[a].drift_run_id = r}

\* C24: within a cycle the steps are ordered: the DriftRun of a model is stored
\* before its Alert is written (an Alert never references a run that is not
\* stored), and the next model is evaluated only after the writes of the
\* previous model have finished.
C24_Stored ==
  /\ \A a \in AlertIds :
       /\ alerts[a].drift_run_id \in RunIds
       /\ drift_runs[alerts[a].drift_run_id].id = alerts[a].drift_run_id
  /\ \A c \in Cycles :
       /\ cycles[c].pc = "alert" =>
            /\ cycles[c].driftRunId \in RunIds
            /\ drift_runs[cycles[c].driftRunId].id = cycles[c].driftRunId
            /\ drift_runs[cycles[c].driftRunId].cycle = c
       /\ Evaluating(c) =>
            \A k \in 1..(cycles[c].idx - 1) :
              \E r \in RunIds :
                /\ drift_runs[r].cycle = c
                /\ drift_runs[r].model_id = cycles[c].models[k]
                /\ drift_runs[r].drift_detected => AlertsFor(r) # {}
C24_Step ==
  \A c \in Cycles :
    (Evaluating(c) /\ Evaluating(c)' /\ cycles'[c].idx # cycles[c].idx) =>
      \/ /\ cycles[c].pc = "store"
         /\ ~cycles[c].drift.drift_detected
         /\ Len(drift_runs') = Len(drift_runs) + 1
      \/ /\ cycles[c].pc = "alert"
         /\ Len(alerts') = Len(alerts) + 1
         /\ alerts'[Len(alerts')].drift_run_id \in RunIds
C24_StepsInOrder == []C24_Stored /\ [][C24_Step]_vars
C24_Witness ==
  \E c \in Cycles : \E r \in RunIds :
    /\ cycles[c].pc = "compute"
    /\ cycles[c].idx = 2
    /\ drift_runs[r].cycle = c
    /\ drift_runs[r].drift_detected
    /\ AlertsFor(r) # {}

\* C26: when the alert insert fails after the DriftRun of a drifting evaluation
\* was stored, the run is kept and no later step or cycle writes an Alert for
\* it: an Alert is only written by the evaluation that stored its run, and a
\* drifting run without Alert is the run of an evaluation whose alert write is
\* still to come or has failed.
C26_Orphans ==
  \A r \in RunIds :
    (drift_runs[r].drift_detected /\ AlertsFor(r) = {}) =>
      LET c == drift_runs[r].cycle
      IN \/ cycles[c].pc = "alert" /\ cycles[c].driftRunId = r
         \/ cycles[c].pc = "done" /\ cycles[c].outcome = "error"
C26_Step ==
  /\ IsPrefix(drift_runs, drift_runs')
  /\ Len(alerts') > Len(alerts) =>
       \E c \in Cycles :
         /\ cycles[c].pc = "alert"
         /\ cycles'[c] # cycles[c]
         /\ alerts'[Len(alerts')].drift_run_id = cycles[c].driftRunId
         /\ drift_runs[cycles[c].driftRunId].cycle = c
  /\ \A c \in Cycles :
       (cycles[c].pc = "alert" /\ cycles'[c] # cycles[c]) =>
         \/ Len(alerts') = Len(alerts) + 1
         \/ /\ alerts' = alerts
            /\ cycles'[c].pc = "done"
            /\ cycles'[c].outcome = "error"
C26_FailedAlertIsNotRetried == []C26_Orphans /\ [][C26_Step]_vars
C26_Witness ==
  \E r \in RunIds : \E c, d \in Cycles :
    /\ drift_runs[r].drift_detected
    /\ AlertsFor(r) = {}
    /\ drift_runs[r].cycle = c
    /\ cycles[c].pc = "done"
    /\ c < d
    /\ cycles[d].pc = "done"
    /\ \E q \in RunIds : drift_runs[q].cycle = d /\ q > r

\* C27: after a successful startup the first cycle starts at once, and the
\* schedule is registered only when that cycle has ended: no scheduled cycle
\* starts while the first one is running.
C27_FirstAlone ==
  /\ InFlight(1) => (mainPc = "first" /\ nCycles = 1)
  /\ mainPc = "scheduled" => cycles[1].pc = "done"
  /\ nCycles > 1 => cycles[1].pc = "done"
C27_Step ==
  /\ (mainPc # "first" /\ mainPc' = "first") =>
       /\ healthOk' /\ dbOk'
       /\ nCycles' = 1
       /\ cycles'[1].pc = "registry"
  /\ (mainPc # "scheduled" /\ mainPc' = "scheduled") =>
       /\ mainPc = "first"
       /\ cycles[1].pc = "done"
  /\ nCycles' > nCycles /\ nCycles > 0 => mainPc = "scheduled"
C27_ScheduleAfterFirstCycle == []C27_FirstAlone /\ [][C27_Step]_vars
C27_Witness ==
  /\ mainPc = "scheduled"
  /\ cycles[1].pc = "done"
  /\ nCycles = 2
  /\ InFlight(2)

CosineCalled == calc.pc = "vectors" /\ calc.cosine # NoResult
KLCalled == calc.pc = "vectors" /\ calc.kl # NoResult

\* C21: cosineSimilarity and klDivergence fail with their dimension-mismatch
\* error for every pair of inputs of different lengths, also when an input is
\* empty, all zeros or sums to zero, and never compute over a prefix.
C21_DimensionMismatch ==
  Len(calc.a) # Len(calc.b) =>
    /\ CosineCalled => calc.cosine = [error |-> "Vectors must have the same length", value |-> 0]
    /\ KLCalled => calc.kl = [error |-> "Distributions must have the same length", value |-> 0]
C21_Witness ==
  /\ CosineCalled
  /\ KLCalled
  /\ Len(calc.a) = 0
  /\ Len(calc.b) = 2
  /\ calc.b[1] + calc.b[2] = 0
  /\ calc.b[1] # 0
  /\ calc.cosine.error = "Vectors must have the same length"
  /\ calc.kl.error = "Distributions must have the same length"

\* the entries of a vector are all zero; the sum of its entries
AllZero(v) == \A k \in 1..Len(v) : v[k] = 0
RECURSIVE Total(_, _)
Total(v, n) == IF n = 0 THEN 0 ELSE v[n] + Total(v, n - 1)

\* C22: for inputs of equal length, cosineSimilarity returns the value 0 when
\* either vector has zero magnitude (two all-zero and two empty vectors
\* included), and klDivergence fails with its empty-distribution error when
\* either input sums to 0.
C22_ZeroInputs ==
  Len(calc.a) = Len(calc.b) =>
    /\ (CosineCalled /\ (AllZero(calc.a) \/ AllZero(calc.b))) =>
         calc.cosine = [error |-> "", value |-> 0]
    /\ (KLCalled /\ (Total(calc.a, Len(calc.a)) = 0 \/ Total(calc.b, Len(calc.b)) = 0)) =>
         calc.kl = [error |-> "Distributions cannot sum to zero", value |-> 0]
C22_Witness ==
  /\ CosineCalled
  /\ KLCalled
  /\ calc.a = <<>>
  /\ calc.b = <<>>
  /\ calc.cosine = [error |-> "", value |-> 0]
  /\ calc.kl.error = "Distributions cannot sum to zero"

\* C23: klDivergence(p, p) is exactly 0 for every valid distribution p
\* (non-negative entries, non-zero sum), zero entries included.
C23_SelfDivergence ==
  (/\ KLCalled
   /\ calc.a = calc.b
   /\ \A k \in 1..Len(calc.a) : calc.a[k] >= 0
   /\ Total(calc.a, Len(calc.a)) # 0) =>
    calc.kl = [error |-> "", value |-> 0]
C23_Witness ==
  /\ KLCalled
  /\ calc.a = <<0, 2>>
  /\ calc.b = <<0, 2>>
  /\ calc.kl = [error |-> "", value |-> 0]

\* a client request to POST /api/drift/calculate was answered
CalculateAnswered == response' # response /\ response'.route = "calculate"

\* C25: POST /api/drift/calculate changes stored state only on success: an
\* error answer (400 for non-array or different-length inputs, 500 when a
\* metric fails or the insert fails) inserts no drift_metrics row, a success
\* inserts exactly one row with cosine_distance = 1 - cosine_similarity and
\* the computed kl_divergence.
C25_Step ==
  /\ IsPrefix(drift_metrics, drift_metrics')
  /\ Len(drift_metrics') <= Len(drift_metrics) + 1
  /\ (drift_metrics' # drift_metrics /\ ingest' = ingest) =>
       (response'.route = "calculate" /\ response'.status = "success")
  /\ CalculateAnswered =>
       LET a == response'.body.baseline
           b == response'.body.current
       IN /\ response'.status \in {"400", "500", "success"}
          /\ response'.status # "success" => drift_metrics' = drift_metrics
          /\ (~a.isArray \/ ~b.isArray) => response'.status = "400"
          /\ (a.isArray /\ b.isArray /\ Len(a.items) # Len(b.items)) => response'.status = "400"
          /\ (a.isArray /\ b.isArray /\ Len(a.items) = Len(b.items)
                /\ (Total(a.items, Len(a.items)) = 0 \/ Total(b.items, Len(b.items)) = 0)) =>
               response'.status = "500"
          /\ response'.status = "success" =>
               /\ Len(drift_metrics') = Len(drift_metrics) + 1
               /\ LET row == drift_metrics'[Len(drift_metrics')]
                  IN /\ calculateCosineSimilarity(a.items, b.items).error = ""
                     /\ calculateKLDivergence(a.items, b.items).error = ""
                     /\ row.cosine_distance
                          = 1000 - calculateCosineSimilarity(a.items, b.items).value
                     /\ row.kl_divergence = calculateKLDivergence(a.items, b.items).value
C25_WritesOnlyOnSuccess == [][C25_Step]_vars
C25_Witness ==
  /\ response.route = "calculate"
  /\ response.status = "500"
  /\ response.body.baseline = [isArray |-> TRUE, items |-> <<>>]
  /\ response.body.current = [isArray |-> TRUE, items |-> <<>>]
  /\ Len(drift_metrics) = 1
  /\ drift_metrics[1].cosine_distance > 0
  /\ drift_metrics[1].kl_divergence > 0
  /\ ingest.runs = 0

\* C28: no failure leaves the scheduled callback of the ingestion job: a
\* refused connection of the internal calculate call is a skipped cycle, any
\* other error is logged by the callback, and cron can fire the callback again.
C28_Contained ==
  /\ ~ingest.escaped
  /\ (ingest.pc = "idle" /\ ingest.runs < MaxIngest) => ENABLED IngestTick
  /\ ingest.pc = "idle" =>
       /\ ingest.code = "ECONNREFUSED" => ingest.log = "skipped"
       /\ (ingest.code # "" /\ ingest.code # "ECONNREFUSED") => ingest.log = "error"
       /\ (ingest.code = "" /\ ingest.runs > 0) => ingest.log = "completed"
C28_Step ==
  (ingest.pc = "posting" /\ ingest'.pc = "idle" /\ ingest'.code = "ECONNREFUSED")
    => drift_metrics' = drift_metrics
C28_IngestionNeverEscapes == []C28_Contained /\ [][C28_Step]_vars
C28_Witness ==
  /\ ingest.pc = "posting"
  /\ ingest.runs = 2
  /\ ingest.code = "ETIMEDOUT"
  /\ ingest.log = "error"
====
